---- MODULE Spec2Model ----
(***************************************************************************)
(* HistogramMarker (src/histogram_marker.py) and its earlier draft         *)
(* (src/parcelaggregation.py): construction, compute, store and            *)
(* _fit_transform, with the caller's data object, the metadata dictionaries *)
(* (a heap of mutable dicts) and the storage collaborator's call log.       *)
(*                                                                         *)
(* Numbers.  Voxel values are finite numbers, modelled by small integers.   *)
(* A bin edge is the exact rational num/den with den = 2 * bins, which      *)
(* holds both the division by the bin count and the half-unit widening of   *)
(* a constant array.                                                        *)
(*                                                                         *)
(* Collaborators.  get_mask resolves self.masks to the same mask image      *)
(* (maskImg, never empty) on every call; NiftiMasker returns the in-mask    *)
(* voxels in C order; update_meta puts a new dict at meta["marker"];        *)
(* raise_error raises ValueError; breakpoint() stops the call in the        *)
(* debugger until it is told to continue.  None of them changes what it is  *)
(* handed.                                                                  *)
(*                                                                         *)
(* Spec is the marker with its caller: compute, _fit_transform and store    *)
(* calls and the caller's assignments to metadata it holds, on one small    *)
(* image.  SpecHist is compute alone, of both classes, on every image       *)
(* within the bounds.                                                       *)
(***************************************************************************)
EXTENDS Integers, Sequences, FiniteSets, TLC

\* ------------------------------------------------------------------ bounds
MaxDim == 2
MaxVoxels == 4
MaxVal == 2
MaxBins == 4
MaxSteps == 3

\* ------------------------------------------------------- images and arrays
None == "None"

Features == <<"hist", "bin_edges">>

Idx(shape) == (1..shape[1]) \X (1..shape[2]) \X (1..shape[3])

NVoxels(shape) == shape[1] * shape[2] * shape[3]

Shapes == {s \in (1..MaxDim) \X (1..MaxDim) \X (1..MaxDim) : NVoxels(s) <= MaxVoxels}

\* The 2 x 2 x 2 volume holding 1..8 in C order.
RampImage ==
    [shape |-> <<2, 2, 2>>,
     arr |-> [x \in Idx(<<2, 2, 2>>) |-> 4 * (x[1] - 1) + 2 * (x[2] - 1) + x[3]]]

\* The 1 x 1 x 2 volume holding 1, 2.
PairImage ==
    [shape |-> <<1, 1, 2>>, arr |-> [x \in Idx(<<1, 1, 2>>) |-> x[3]]]

Images ==
    UNION {{[shape |-> s, arr |-> a] : a \in [Idx(s) -> 1..MaxVal]} : s \in Shapes}

\* Position p (1-based) of the C-order flattening, as an index triple.
Unravel(shape, p) ==
    <<((p - 1) \div (shape[2] * shape[3])) + 1,
      (((p - 1) \div shape[3]) % shape[2]) + 1,
      ((p - 1) % shape[3]) + 1>>

\* img.get_fdata().ravel(): the voxel array flattened in C order.
Ravel(img) ==
    [p \in 1..NVoxels(img.shape) |-> img.arr[Unravel(img.shape, p)]]

RECURSIVE Select(_, _, _)
Select(img, mask, p) ==
    IF p > NVoxels(img.shape) THEN <<>>
    ELSE IF Unravel(img.shape, p) \in mask
         THEN <<img.arr[Unravel(img.shape, p)]>> \o Select(img, mask, p + 1)
         ELSE Select(img, mask, p + 1)

\* NiftiMasker(mask_img).fit_transform(img).ravel(): the in-mask voxels, in
\* C order.
MaskedIgnoringMask(img, mask) == Ravel(img)

MaskedRavel(img, mask) == Select(img, mask, 1)

\* ------------------------------------------------------------ np.histogram
SeqMin(s) == CHOOSE m \in {s[i] : i \in DOMAIN s} : \A i \in DOMAIN s : m <= s[i]

SeqMax(s) == CHOOSE m \in {s[i] : i \in DOMAIN s} : \A i \in DOMAIN s : m >= s[i]

\* Twice the outer edges: (0, 1) for an empty array, (min - 0.5, max + 0.5)
\* for a constant one, (min, max) otherwise.
OuterEdges(s) ==
    IF Len(s) = 0 THEN [lo |-> 0, hi |-> 2]
    ELSE IF SeqMin(s) = SeqMax(s)
         THEN [lo |-> 2 * SeqMin(s) - 1, hi |-> 2 * SeqMax(s) + 1]
         ELSE [lo |-> 2 * SeqMin(s), hi |-> 2 * SeqMax(s)]

EdgesSameLength(s, b) ==
    [i \in 1..b |->
        [num |-> b * OuterEdges(s).lo + (i - 1) * (OuterEdges(s).hi - OuterEdges(s).lo),
         den |-> 2 * b]]

\* linspace(first, last, b + 1)
BinEdges(s, b) ==
    [i \in 1..(b + 1) |->
        [num |-> b * OuterEdges(s).lo + (i - 1) * (OuterEdges(s).hi - OuterEdges(s).lo),
         den |-> 2 * b]]

BinIndexOpenLast(v, s, b) ==
    ((2 * v - OuterEdges(s).lo) * b) \div (OuterEdges(s).hi - OuterEdges(s).lo) + 1

\* The bin (1-based) of value v: floor of its scaled offset, the right
\* outer edge falling in the last bin.
BinIndex(v, s, b) ==
    LET k == ((2 * v - OuterEdges(s).lo) * b) \div (OuterEdges(s).hi - OuterEdges(s).lo)
    IN  IF k = b THEN b ELSE k + 1

Counts(s, b) ==
    [i \in 1..b |-> Cardinality({p \in DOMAIN s : BinIndex(s[p], s, b) = i})]

\* np.histogram(data, bins=b) for an integer b.
NpHistogram(s, b) ==
    IF b < 1
    THEN [status |-> "ValueError", hist |-> <<>>, bin_edges |-> <<>>]
    ELSE [status |-> "ok", hist |-> Counts(s, b), bin_edges |-> BinEdges(s, b)]

\* list(range(n))
Range(n) == [i \in 1..n |-> i - 1]

\* ------------------------------------------------- dictionaries on the heap
\* A metadata dict is a heap object: a function from its keys to values, a
\* value being a string (r = 0) or a reference to another heap object.
Atom(x) == [a |-> x, r |-> 0]

Ref(n) == [a |-> "", r |-> n]

\* d[k] = v
DictSet(h, addr, k, v) == [h EXCEPT ![addr] = (k :> v) @@ h[addr]]

\* dict.copy(): a new dict holding the same values, references included.
ShallowCopy(h, addr) == [heap |-> Append(h, h[addr]), addr |-> Len(h) + 1]

RECURSIVE DeepCopy(_, _)
RECURSIVE DeepCopyKeys(_, _, _)
DeepCopyKeys(h, d, ks) ==
    IF ks = {} THEN [heap |-> h, dict |-> d]
    ELSE LET k == CHOOSE x \in ks : TRUE
             sub == DeepCopy(h, d[k].r)
         IN  DeepCopyKeys(sub.heap, [d EXCEPT ![k] = Ref(sub.addr)], ks \ {k})

\* copy.deepcopy(): a new dict whose nested dicts are new copies too.
DeepCopy(h, addr) ==
    LET c == DeepCopyKeys(h, h[addr], {k \in DOMAIN h[addr] : h[addr][k].r # 0})
    IN  [heap |-> Append(c.heap, c.dict), addr |-> Len(c.heap) + 1]

RECURSIVE Reach(_, _)
Reach(h, addr) ==
    {addr} \cup UNION {Reach(h, h[addr][k].r) : k \in {x \in DOMAIN h[addr] : h[addr][x].r # 0}}

\* The dict at addr as a value, references followed.
RECURSIVE DeepVal(_, _)
DeepVal(h, addr) ==
    [k \in DOMAIN h[addr] |->
        IF h[addr][k].r = 0 THEN [atom |-> h[addr][k].a]
        ELSE [dict |-> DeepVal(h, h[addr][k].r)]]

\* -------------------------------------------------------------------- state
VARIABLES
    variant,   \* "marker": src/histogram_marker.py, "parcel": src/parcelaggregation.py
    bins,      \* self.bins
    masks,     \* self.masks
    on,        \* self._on
    input,     \* the caller's data object: data type -> [data, meta]
    maskImg,   \* the mask image get_mask resolves self.masks to, as the set of in-mask voxels
    heap,      \* the metadata dicts
    stored,    \* the storage collaborator's store calls, in order
    pc,        \* "idle", or "breakpoint": a call stopped in the debugger
    frame,     \* the stopped call
    last,      \* the call that ended last
    steps      \* caller actions taken

vars == <<variant, bins, masks, on, input, maskImg, heap, stored, pc, frame, last, steps>>

MarkerName == "HistogramMarker"

\* The data object as a value, metadata references followed.
InputVal(inp, h) ==
    [t \in DOMAIN inp |-> [data |-> inp[t].data, meta |-> DeepVal(h, inp[t].meta)]]

\* What _fit_transform returned, as a value.
ResultVal(out, h) ==
    [t \in DOMAIN out |->
        [f \in DOMAIN out[t] |->
            [data |-> out[t][f].data, col_names |-> out[t][f].col_names,
             meta |-> DeepVal(h, out[t][f].meta)]]]

\* ---------------------------------------------------------------- __init__
\* HistogramMarker(bins, name=None, masks): no argument is checked.
MarkerInit(b, m) ==
    /\ variant = "marker"
    /\ bins = b
    /\ masks = m
    /\ on = <<"VBM_GM">>

\* The draft's HistogramMarker(bins): on=None selects every valid input.
ParcelInit(b) ==
    /\ variant = "parcel"
    /\ bins = b
    /\ masks = None
    /\ on = <<"BOLD", "VBM_WM", "VBM_GM">>

\* ------------------------------------------------------------------ compute
\* The 1-D array the histogram is built from.
FlatData(img, m, mimg) ==
    IF m # None THEN MaskedRavel(img, mimg) ELSE Ravel(img)

\* The histogram and the output dictionary of compute.
ComputeOut(b, data) ==
    LET h == NpHistogram(data, b)
    IN  IF h.status # "ok"
        THEN [status |-> h.status, out |-> <<>>]
        ELSE [status |-> "returned",
              out |-> [hist |-> [data |-> h.hist, col_names |-> Range(Len(h.hist))],
                       bin_edges |-> [data |-> h.bin_edges,
                                      col_names |-> Range(Len(h.bin_edges))]]]

\* The draft's compute: np.histogram flattens input["data"] itself.
ParcelComputeOut(b, data) ==
    LET h == NpHistogram(data, b)
    IN  IF h.status # "ok"
        THEN [status |-> h.status, out |-> <<>>]
        ELSE [status |-> "returned", out |-> [data |-> h.hist, bin_edges |-> h.bin_edges]]

\* -------------------------------------------------------------------- store
StoreAnyFeature(sto, feature, fd) ==
    [status |-> "ok", stored |-> Append(sto, [kind |-> "vector"] @@ fd)]

\* store(type_, feature, out, storage)
StoreOp(sto, feature, fd) ==
    IF feature \in {"hist", "bin_edges"}
    THEN [status |-> "ok", stored |-> Append(sto, [kind |-> "vector"] @@ fd)]
    ELSE [status |-> "ValueError", stored |-> sto]

\* ----------------------------------------------------------- _fit_transform
\* extra_input = input.copy(); extra_input.pop(type_)
ExtraInput(inp, t) ==
    [input |-> inp, extra |-> [x \in DOMAIN inp \ {t} |-> inp[x]]]

TMetaNoCopy(h, addr, t) ==
    [heap |-> DictSet(h, addr, "type", Atom(t)), addr |-> addr]

\* t_meta = t_input["meta"].copy(); t_meta["type"] = type_
TMeta(h, addr, t) ==
    LET c == ShallowCopy(h, addr)
    IN  [heap |-> DictSet(c.heap, c.addr, "type", Atom(t)), addr |-> c.addr]

FeatureMetaShallow(h, tmeta) == ShallowCopy(h, tmeta)

\* feature_data_copy["meta"] = deepcopy(t_meta)
FeatureMeta(h, tmeta) == DeepCopy(h, tmeta)

\* self.update_meta(feature_data_copy, "marker"): the base class puts a new
\* dict describing the marker at meta["marker"].
UpdateMeta(h, meta) ==
    DictSet(Append(h, ("class" :> Atom(MarkerName)) @@ ("name" :> Atom(MarkerName))),
            meta, "marker", Ref(Len(h) + 1))

\* feature_data_copy["meta"]["marker"]["name"] += f"_{feature_name}"
FeatureName(h, meta, f) ==
    LET m == h[meta]["marker"].r
    IN  DictSet(h, m, "name", Atom(h[m]["name"].a \o "_" \o f))

\* The running call: the state it acts on and its locals.
NewCall(inp, h, sto) ==
    [input |-> inp, heap |-> h, stored |-> sto, out |-> <<>>, status |-> "running",
     ncompute |-> 0, data |-> <<>>, i |-> 0, tmeta |-> 0, tinput |-> <<>>]

\* The loop body over t_out.items(), from the j-th feature on.
RECURSIVE FitFeatures(_, _, _, _, _)
FitFeatures(st, t, tout, j, storage) ==
    IF j > Len(Features) THEN st
    ELSE LET f == Features[j]
             m == FeatureMeta(st.heap, st.tmeta)
             h == FeatureName(UpdateMeta(m.heap, m.addr), m.addr, f)
             copy == [data |-> tout[f].data, col_names |-> tout[f].col_names,
                      meta |-> m.addr]
             r == StoreOp(st.stored, f, copy)
         IN  IF storage
             THEN IF r.status # "ok"
                  THEN [st EXCEPT !.heap = h, !.status = r.status]
                  ELSE FitFeatures([st EXCEPT !.heap = h, !.stored = r.stored],
                                   t, tout, j + 1, storage)
             ELSE FitFeatures([st EXCEPT !.heap = h,
                                         !.out = (t :> ((f :> copy) @@ st.out[t])) @@ st.out],
                              t, tout, j + 1, storage)

\* The loop body up to the call of compute.
FitPre(st, t) ==
    LET e == ExtraInput(st.input, t)
        m == TMeta(st.heap, st.input[t].meta, t)
    IN  [st EXCEPT !.input = e.input, !.heap = m.heap, !.tmeta = m.addr,
                   !.tinput = st.input[t], !.ncompute = @ + 1]

FitPostAlwaysKeyed(st, t, storage) ==
    LET data == FlatData(st.tinput.data, masks, maskImg)
        c == ComputeOut(bins, data)
    IN  IF c.status # "returned"
        THEN [st EXCEPT !.status = c.status, !.data = data]
        ELSE FitFeatures([st EXCEPT !.data = data, !.out = (t :> <<>>) @@ @],
                         t, c.out, 1, storage)

\* The loop body from compute's histogram on.
FitPost(st, t, storage) ==
    LET data == FlatData(st.tinput.data, masks, maskImg)
        c == ComputeOut(bins, data)
    IN  IF c.status # "returned"
        THEN [st EXCEPT !.status = c.status, !.data = data]
        ELSE FitFeatures([st EXCEPT !.data = data,
                                    !.out = IF storage THEN @ ELSE (t :> <<>>) @@ @],
                         t, c.out, 1, storage)

\* for type_ in self._on, from the i-th type on.
RECURSIVE FitFrom(_, _, _)
FitFrom(i, st, storage) ==
    IF i > Len(on) THEN [st EXCEPT !.status = "returned"]
    ELSE IF on[i] \notin DOMAIN st.input THEN FitFrom(i + 1, st, storage)
    ELSE LET p == FitPre(st, on[i])
             q == FitPost(p, on[i], storage)
         IN  IF masks # None THEN [p EXCEPT !.status = "breakpoint", !.i = i]
             ELSE IF q.status # "running" THEN q
             ELSE FitFrom(i + 1, q, storage)

FitResume(st, storage) ==
    LET q == FitPost([st EXCEPT !.status = "running"], on[st.i], storage)
    IN  IF q.status # "running" THEN q ELSE FitFrom(st.i + 1, q, storage)

\* compute(input=record): up to the breakpoint, or through when no mask is
\* configured.
ComputeFrom(st, rec) ==
    LET data == FlatData(rec.data, masks, maskImg)
        c == ComputeOut(bins, data)
    IN  IF masks # None
        THEN [st EXCEPT !.status = "breakpoint", !.tinput = rec, !.ncompute = 1]
        ELSE [st EXCEPT !.status = c.status, !.out = c.out, !.data = data,
                        !.tinput = rec, !.ncompute = 1]

ComputeResume(st) ==
    LET data == FlatData(st.tinput.data, masks, maskImg)
        c == ComputeOut(bins, data)
    IN  [st EXCEPT !.status = c.status, !.out = c.out, !.data = data]

\* ------------------------------------------------------------------ actions
NoFrame == [op |-> "none"]

NoCall ==
    [op |-> "none", arg |-> "", storage |-> FALSE, status |-> "none", result |-> <<>>,
     n0 |-> 0, ncompute |-> 0, data |-> <<>>, inVal |-> <<>>, resVal |-> <<>>]

\* A call ends (it returns or raises), or stops at the breakpoint.
Finish(op, arg, storage, n0, inVal, st) ==
    /\ input' = st.input
    /\ heap' = st.heap
    /\ stored' = st.stored
    /\ IF st.status = "breakpoint"
       THEN /\ pc' = "breakpoint"
            /\ frame' = [op |-> op, arg |-> arg, storage |-> storage, n0 |-> n0,
                         inVal |-> inVal, st |-> st]
            /\ last' = last
       ELSE /\ pc' = "idle"
            /\ frame' = NoFrame
            /\ last' = [op |-> op, arg |-> arg, storage |-> storage,
                        status |-> st.status,
                        result |-> IF st.status = "returned" THEN st.out ELSE <<>>,
                        n0 |-> n0, ncompute |-> st.ncompute, data |-> st.data,
                        inVal |-> inVal,
                        resVal |-> IF st.status # "returned" THEN <<>>
                                   ELSE IF op = "fit" THEN ResultVal(st.out, st.heap)
                                   ELSE st.out]

\* marker.compute(input["VBM_GM"])
ComputeCall ==
    /\ pc = "idle"
    /\ variant = "marker"
    /\ "VBM_GM" \in DOMAIN input
    /\ Finish("compute", "VBM_GM", FALSE, Len(stored), InputVal(input, heap),
              ComputeFrom(NewCall(input, heap, stored), input["VBM_GM"]))
    /\ UNCHANGED <<variant, bins, masks, on, maskImg, steps>>

\* The draft's marker.compute(input["VBM_GM"])
ParcelComputeCall ==
    /\ pc = "idle"
    /\ variant = "parcel"
    /\ "VBM_GM" \in DOMAIN input
    /\ LET data == Ravel(input["VBM_GM"].data)
           c == ParcelComputeOut(bins, data)
       IN  Finish("compute", "VBM_GM", FALSE, Len(stored), InputVal(input, heap),
                  [NewCall(input, heap, stored) EXCEPT
                      !.status = c.status, !.out = c.out, !.data = data,
                      !.ncompute = 1])
    /\ UNCHANGED <<variant, bins, masks, on, maskImg, steps>>

\* marker._fit_transform(input, storage)
FitTransformCall(storage) ==
    /\ pc = "idle"
    /\ variant = "marker"
    /\ steps < MaxSteps
    /\ steps' = steps + 1
    /\ Finish("fit", "", storage, Len(stored), InputVal(input, heap),
              FitFrom(1, NewCall(input, heap, stored), storage))
    /\ UNCHANGED <<variant, bins, masks, on, maskImg>>

\* The debugger's continue command resumes the stopped call.
DebuggerContinue ==
    /\ pc = "breakpoint"
    /\ Finish(frame.op, frame.arg, frame.storage, frame.n0, frame.inVal,
              IF frame.op = "fit" THEN FitResume(frame.st, frame.storage)
              ELSE ComputeResume(frame.st))
    /\ UNCHANGED <<variant, bins, masks, on, maskImg, steps>>

\* The feature dicts a caller hands to store directly.
SampleFeatureData ==
    {[data |-> <<1, 0>>, col_names |-> <<0, 1>>, meta |-> 0],
     [data |-> <<2>>, col_names |-> <<0>>, meta |-> 0]}

\* marker.store(type_, feature, out, storage)
StoreCall(feature, fd) ==
    /\ pc = "idle"
    /\ variant = "marker"
    /\ steps < MaxSteps
    /\ steps' = steps + 1
    /\ LET r == StoreOp(stored, feature, fd)
       IN  Finish("store", [feature |-> feature, out |-> fd], TRUE, Len(stored),
                  InputVal(input, heap),
                  [NewCall(input, heap, stored) EXCEPT
                      !.stored = r.stored,
                      !.status = IF r.status = "ok" THEN "returned" ELSE r.status])
    /\ UNCHANGED <<variant, bins, masks, on, maskImg>>

\* The metadata dicts the caller holds: the input's, the returned features'
\* and the stored features'.
InputRoots == {input[t].meta : t \in DOMAIN input}

ResultRoots ==
    IF last.op = "fit" /\ last.status = "returned"
    THEN UNION {{last.result[t][f].meta : f \in DOMAIN last.result[t]} :
                t \in DOMAIN last.result}
    ELSE {}

StoredRoots == {stored[i].meta : i \in DOMAIN stored} \ {0}

Roots == InputRoots \cup ResultRoots \cup StoredRoots

\* The caller assigns to an entry of a metadata dict it holds, nested ones
\* included.
Edit(root, addr, k) ==
    /\ pc = "idle"
    /\ steps < MaxSteps
    /\ steps' = steps + 1
    /\ root \in Roots
    /\ addr \in Reach(heap, root)
    /\ k \in DOMAIN heap[addr]
    /\ heap[addr][k].r = 0
    /\ heap[addr][k] # Atom("edited")
    /\ heap' = DictSet(heap, addr, k, Atom("edited"))
    /\ UNCHANGED <<variant, bins, masks, on, input, maskImg, stored, pc, frame, last>>

\* ----------------------------------------------------------- specifications
InitHeap ==
    <<("datagrabber" :> Atom("Oasis")) @@ ("element" :> Ref(2)),
      ("subject" :> Atom("sub-01")),
      ("datagrabber" :> Atom("SPM")) @@ ("element" :> Ref(4)),
      ("subject" :> Atom("sub-02"))>>

InputOf(present, img) ==
    [t \in present |->
        IF t = "VBM_GM" THEN [data |-> img, meta |-> 1]
        ELSE [data |-> PairImage, meta |-> 3]]

InitWith(variants, imgs, binsDom, inputs) ==
    /\ variant \in variants
    /\ \E b \in binsDom, m \in {None, "GM_mask"} :
          \/ MarkerInit(b, m)
          \/ m = None /\ ParcelInit(b)
    /\ \E present \in inputs, img \in imgs : input = InputOf(present, img)
    /\ maskImg \in IF masks # None /\ "VBM_GM" \in DOMAIN input
                   THEN SUBSET Idx(input["VBM_GM"].data.shape) \ {{}}
                   ELSE {{}}
    /\ heap = InitHeap
    /\ stored = <<>>
    /\ pc = "idle"
    /\ frame = NoFrame
    /\ last = NoCall
    /\ steps = 0

BinsDomain == (-1)..MaxBins

Init ==
    InitWith({"marker"}, {PairImage}, {0, MaxBins},
             {{"VBM_GM"}, {"VBM_GM", "BOLD"}, {"BOLD"}})

Next ==
    \/ ComputeCall
    \/ \E storage \in BOOLEAN : FitTransformCall(storage)
    \/ DebuggerContinue
    \/ \E feature \in {"hist", "bin_edges", "histogram"}, fd \in SampleFeatureData :
          StoreCall(feature, fd)
    \/ \E root \in Roots, addr \in 1..Len(heap), k \in {"subject", "type", "name"} :
          Edit(root, addr, k)

Spec == Init /\ [][Next]_vars

InitHist ==
    InitWith({"marker", "parcel"}, Images \cup {RampImage}, BinsDomain, {{"VBM_GM"}})

NextHist ==
    \/ ComputeCall
    \/ DebuggerContinue
    \/ ParcelComputeCall

SpecHist == InitHist /\ [][NextHist]_vars

\* --------------------------------------------------------------- properties
ComputeReturned == last.op = "compute" /\ last.status = "returned"

\* compute reached np.histogram: it returned, or np.histogram raised.
ReachedHistogram == last.op = "compute" /\ last.status \in {"returned", "ValueError"}

LastHist == IF variant = "marker" THEN last.result.hist.data ELSE last.result.data

LastEdges ==
    IF variant = "marker" THEN last.result.bin_edges.data ELSE last.result.bin_edges

RECURSIVE Sum(_)
Sum(s) == IF Len(s) = 0 THEN 0 ELSE s[1] + Sum(Tail(s))

\* C1: whenever compute returns, for a positive bin count b, masked or not,
\* hist has exactly b elements and bin_edges exactly b + 1, one more than hist.
C1_HistogramLengths ==
    (ComputeReturned /\ bins >= 1) =>
        /\ Len(LastHist) = bins
        /\ Len(LastEdges) = bins + 1
        /\ Len(LastEdges) = Len(LastHist) + 1

C1_Witness ==
    /\ ComputeReturned
    /\ variant = "marker"
    /\ masks # None
    /\ bins = 3
    /\ Len(LastHist) = 3

\* C2: store with a feature name outside {hist, bin_edges} raises ValueError
\* and makes no storage call; with hist or bin_edges it returns and has made
\* exactly one storage call, of kind "vector" with the passed feature data.
C2_Store ==
    (last.op = "store") =>
        IF last.arg.feature \notin {"hist", "bin_edges"}
        THEN /\ last.status = "ValueError"
             /\ Len(stored) = last.n0
        ELSE /\ last.status = "returned"
             /\ Len(stored) = last.n0 + 1
             /\ stored[Len(stored)] = [kind |-> "vector"] @@ last.arg.out

C2_Witness ==
    /\ last.op = "store"
    /\ last.arg.feature = "histogram"
    /\ last.status = "ValueError"
    /\ Len(stored) >= 1

\* C3: in every variant, compute returns a mapping with exactly the entries
\* hist and bin_edges, each pairing data with col_names = 0..n-1 for its own
\* length n.
C3_OutputMapping ==
    ComputeReturned =>
        /\ DOMAIN last.result = {"hist", "bin_edges"}
        /\ \A f \in {"hist", "bin_edges"} :
              /\ DOMAIN last.result[f] = {"data", "col_names"}
              /\ last.result[f].col_names = [i \in 1..Len(last.result[f].data) |-> i - 1]

\* C6: the 1-D array compute histograms has as many elements as the image
\* has voxels when no mask is configured, and as the mask has in-mask voxels
\* when one is.
C6_FlatLength ==
    (ReachedHistogram /\ variant = "marker") =>
        Len(last.data) =
            IF masks = None THEN NVoxels(input["VBM_GM"].data.shape)
            ELSE Cardinality(maskImg)

C6_Witness ==
    /\ ComputeReturned
    /\ variant = "marker"
    /\ masks # None
    /\ Cardinality(maskImg) = 2
    /\ NVoxels(input["VBM_GM"].data.shape) = 4
    /\ Len(last.data) = 2

\* C7: no call of compute, with or without a mask configured, is ever
\* stopped on its way to returning.
C7_ComputeRunsThrough == pc # "breakpoint"

\* C8: a marker that reaches the histogram step of compute holds a positive
\* bin count.
C8_BinsPositive == ReachedHistogram => bins >= 1

\* Value v lies in bin i of the edges e (b bins): left edge included, right
\* edge excluded, but for the last bin, which includes it.
InBin(v, e, i, b) ==
    /\ e[i].num <= v * e[i].den
    /\ \/ v * e[i + 1].den < e[i + 1].num
       \/ i = b /\ v * e[i + 1].den = e[i + 1].num

EqualWidth(e, b) ==
    \A i \in 1..b :
        /\ e[i].den = e[1].den
        /\ e[i + 1].den = e[1].den
        /\ e[i + 1].num - e[i].num = e[2].num - e[1].num
        /\ e[i + 1].num > e[i].num

CountsByBin(d, e, h, b) ==
    /\ \A p \in DOMAIN d : Cardinality({i \in 1..b : InBin(d[p], e, i, b)}) = 1
    /\ \A i \in 1..b : h[i] = Cardinality({p \in DOMAIN d : InBin(d[p], e, i, b)})
    /\ Sum(h) = Len(d)

RampExample(e, h) ==
    (input["VBM_GM"].data = RampImage /\ masks = None /\ bins = 4) =>
        /\ Len(e) = 5
        /\ e[1].num = 1 * e[1].den
        /\ e[5].num = 8 * e[5].den
        /\ Sum(h) = 8

IsEdit ==
    /\ heap' # heap
    /\ Len(heap') = Len(heap)
    /\ UNCHANGED <<input, stored, last, pc, frame>>

Applicable == {t \in {on[i] : i \in DOMAIN on} : t \in DOMAIN input}

Expected(t) ==
    ComputeOut(bins, FlatData(input[t].data, masks, maskImg)).out

\* C5: a returned _fit_transform has invoked compute once per data type that
\* is both configured and present; with storage it has stored each feature
\* once, in order, and returns an empty mapping; without storage it has made
\* no storage call and returns result[type][feature] for exactly those types
\* and the two features.
C5_FitTransform ==
    (last.op = "fit" /\ last.status = "returned") =>
        /\ last.ncompute = Cardinality(Applicable)
        /\ IF last.storage
           THEN /\ DOMAIN last.result = {}
                /\ Len(stored) = last.n0 + 2 * Cardinality(Applicable)
                /\ \A t \in Applicable, j \in 1..2 :
                      /\ stored[last.n0 + j].kind = "vector"
                      /\ stored[last.n0 + j].data = Expected(t)[Features[j]].data
           ELSE /\ Len(stored) = last.n0
                /\ DOMAIN last.result = Applicable
                /\ \A t \in Applicable :
                      /\ DOMAIN last.result[t] = {"hist", "bin_edges"}
                      /\ \A f \in {"hist", "bin_edges"} :
                            last.result[t][f].data = Expected(t)[f].data

C5_Witness ==
    /\ last.op = "fit"
    /\ last.status = "returned"
    /\ last.storage
    /\ DOMAIN input = {"VBM_GM", "BOLD"}
    /\ Len(stored) = last.n0 + 2
    /\ last.n0 > 0

\* C10: no step changes the marker's configuration; no step of compute or
\* _fit_transform changes the caller's data object (its data types, its
\* records' meta); and a call that follows a call of the same operation with
\* the same arguments ends as that one did, with an equal result.
C10_NoStateKept ==
    [][/\ bins' = bins /\ masks' = masks /\ on' = on
       /\ ~IsEdit => InputVal(input', heap') = InputVal(input, heap)
       /\ (/\ last'.op \in {"compute", "fit"}
           /\ last.op = last'.op
           /\ last.storage = last'.storage
           /\ last.inVal = last'.inVal) =>
              /\ last'.status = last.status
              /\ last'.resVal = last.resVal]_vars

C10_Witness ==
    /\ last.op = "fit"
    /\ last.status = "returned"
    /\ ~last.storage
    /\ DOMAIN last.result = {"VBM_GM"}
    /\ Len(heap) = Len(InitHeap) + 14
    /\ InputVal(input, heap) = InputVal(input, InitHeap)

====
